---- MODULE Spec2Model ----
(***************************************************************************)
(* Vector3D and Matrix3D of src/math: the operators of the two value types *)
(* as TLA+ operators, and small programs that construct values and apply   *)
(* the operators to them.                                                  *)
(*                                                                         *)
(* An f32 is a record [k, neg, m]: k is "fin" (the value is the integer    *)
(* m, negated when neg), "inf" or "nan"; neg is the sign bit, so that +0.0 *)
(* and -0.0 are two values.  Every finite value of the model is an integer *)
(* far below 2^24, where f32 addition, subtraction and multiplication are  *)
(* exact.                                                                  *)
(***************************************************************************)
EXTENDS Integers, Sequences, FiniteSets, TLC

VARIABLES
    layout,     \* the build's placement of Vector3D's fields: field -> slot
    m,          \* a Matrix3D: its array n, n[col][row]
    lhs, rhs,   \* the operands of the last matrix product
    args,       \* the nine arguments of the last Matrix3D::new
    cols,       \* the three arguments of the last Matrix3D::from_vectors
    v,          \* a Vector3D: the receiver / first operand
    w,          \* a Vector3D: the second operand
    acc,        \* the Vector3D returned by the last operator
    res,        \* the f32 returned by the last indexed read
    op,         \* the last operation and its scalar arguments
    hist,       \* the names of the operations applied so far
    panicked,   \* the thread has panicked
    writes      \* the number of writes made to m

vars == <<layout, m, lhs, rhs, args, cols, v, w, acc, res, op, hist, panicked, writes>>

(***************************************************************************)
(* Bounds of the model.                                                    *)
(***************************************************************************)
MaxInt == 1         \* finite components are drawn from -MaxInt..MaxInt
MaxIndex == 3       \* indices are drawn from 0..MaxIndex
MaxOps == 2         \* by-value operators chained on one vector
MaxWrites == 2      \* writes made to one matrix

(***************************************************************************)
(* f32                                                                     *)
(***************************************************************************)
Fin(i) == [k |-> "fin", neg |-> i < 0, m |-> IF i < 0 THEN -i ELSE i]
NegZero == [k |-> "fin", neg |-> TRUE, m |-> 0]
Inf == [k |-> "inf", neg |-> FALSE, m |-> 0]
NegInf == [k |-> "inf", neg |-> TRUE, m |-> 0]
NaN == [k |-> "nan", neg |-> FALSE, m |-> 0]

IsNaN(a) == a.k = "nan"
IsInf(a) == a.k = "inf"
IsZero(a) == a.k = "fin" /\ a.m = 0
Val(a) == IF a.neg THEN -a.m ELSE a.m
Signed(kind, neg, mag) == [k |-> kind, neg |-> neg, m |-> mag]

\* f32 == f32 (PartialEq for f32): NaN equals nothing, +0.0 equals -0.0.
FEq(a, b) ==
    /\ ~IsNaN(a)
    /\ ~IsNaN(b)
    /\ \/ IsZero(a) /\ IsZero(b)
       \/ a = b

\* -a: the sign bit flipped, of a NaN too.
FNeg(a) == [a EXCEPT !.neg = ~a.neg]

\* a + b (round to nearest): x + (-x) is +0.0, (-0.0) + (-0.0) is -0.0.
FAdd(a, b) ==
    IF IsNaN(a) \/ IsNaN(b) THEN NaN
    ELSE IF IsInf(a) /\ IsInf(b) THEN (IF a.neg = b.neg THEN a ELSE NaN)
    ELSE IF IsInf(a) THEN a
    ELSE IF IsInf(b) THEN b
    ELSE LET s == Val(a) + Val(b)
         IN  IF s = 0 THEN Signed("fin", a.neg /\ b.neg, 0) ELSE Fin(s)

\* a - b is a + (-b) in IEEE-754.
FSub(a, b) == FAdd(a, FNeg(b))

\* a * b: the sign is the exclusive or of the signs; Inf * 0 is NaN.
FMul(a, b) ==
    IF IsNaN(a) \/ IsNaN(b) THEN NaN
    ELSE IF (IsInf(a) /\ IsZero(b)) \/ (IsZero(a) /\ IsInf(b)) THEN NaN
    ELSE IF IsInf(a) \/ IsInf(b) THEN Signed("inf", a.neg # b.neg, 0)
    ELSE Signed("fin", a.neg # b.neg, a.m * b.m)

\* a / b: 0/0 and Inf/Inf are NaN, x/0 is an infinity, x/Inf is a zero.  A
\* finite quotient is exact for the divisors of the model (1 and -1).
FDiv(a, b) ==
    IF IsNaN(a) \/ IsNaN(b) THEN NaN
    ELSE IF (IsZero(a) /\ IsZero(b)) \/ (IsInf(a) /\ IsInf(b)) THEN NaN
    ELSE IF IsInf(a) \/ IsZero(b) THEN Signed("inf", a.neg # b.neg, 0)
    ELSE IF IsInf(b) THEN Signed("fin", a.neg # b.neg, 0)
    ELSE Signed("fin", a.neg # b.neg, a.m \div b.m)

Ints == {Fin(i) : i \in (-MaxInt)..MaxInt}
Vals == Ints \cup {NegZero, Inf, NegInf, NaN}
Indices == 0..MaxIndex

(***************************************************************************)
(* Vector3D                                                                *)
(***************************************************************************)
VNew(x, y, z) == [x |-> x, y |-> y, z |-> z]

\* #[derive(PartialEq)]: the fields compared in order with f32's ==.
VEq(a, b) == FEq(a.x, b.x) /\ FEq(a.y, b.y) /\ FEq(a.z, b.z)

\* neg with z taken from y.
NegSlip(a) == [x |-> FNeg(a.x), y |-> FNeg(a.y), z |-> FNeg(a.y)]
VNeg(a) == [x |-> FNeg(a.x), y |-> FNeg(a.y), z |-> FNeg(a.z)]

\* add with the z term taken from other.y.
AddSlip(a, b) == [x |-> FAdd(a.x, b.x), y |-> FAdd(a.y, b.y), z |-> FAdd(a.z, b.y)]
VAdd(a, b) == [x |-> FAdd(a.x, b.x), y |-> FAdd(a.y, b.y), z |-> FAdd(a.z, b.z)]

VSub(a, b) == [x |-> FSub(a.x, b.x), y |-> FSub(a.y, b.y), z |-> FSub(a.z, b.z)]

VMul(a, s) == [x |-> FMul(a.x, s), y |-> FMul(a.y, s), z |-> FMul(a.z, s)]

\* div that returns its operand when the divisor is zero.
DivGuarded(a, s) ==
    IF IsZero(s) THEN a
    ELSE [x |-> FDiv(a.x, s), y |-> FDiv(a.y, s), z |-> FDiv(a.z, s)]
VDiv(a, s) == [x |-> FDiv(a.x, s), y |-> FDiv(a.y, s), z |-> FDiv(a.z, s)]

\* An index match that wraps around instead of panicking.
FieldWrapped(index) ==
    CASE index % 3 = 0 -> "x"
      [] index % 3 = 1 -> "y"
      [] OTHER -> "z"
\* The match of Index / IndexMut: the field an index names, or a panic.
Field(index) ==
    CASE index = 0 -> "x"
      [] index = 1 -> "y"
      [] index = 2 -> "z"
      [] OTHER -> "panic"

VGet(a, index) == a[Field(index)]
VSet(a, index, x) == [a EXCEPT ![Field(index)] = x]

\* MulAssign / DivAssign: the three fields updated in place.
VMulAssign(a, s) == [x |-> FMul(a.x, s), y |-> FMul(a.y, s), z |-> FMul(a.z, s)]
VDivAssign(a, s) == [x |-> FDiv(a.x, s), y |-> FDiv(a.y, s), z |-> FDiv(a.z, s)]

\* The vector of the tests, and the vectors the programs start from.
V123 == VNew(Fin(1), Fin(2), Fin(3))
V456 == VNew(Fin(4), Fin(5), Fin(6))
Vecs == {VNew(x, y, z) : x \in Vals, y \in Vals, z \in Vals} \cup {V123}
SumVals == Ints \cup {NegZero}
IntVecs == {VNew(x, y, z) : x \in SumVals, y \in SumVals, z \in SumVals}
DivScalars == {Fin(0), NegZero, Fin(1), Fin(-1), Inf, NaN}
MulScalars == {Fin(0), Fin(2), Fin(-1)}
WriteVals == {Fin(4), NaN}

NoOp == [name |-> "start", i |-> 0, j |-> 0, x |-> Fin(0)]
Op(name, i, j, x) == [name |-> name, i |-> i, j |-> j, x |-> x]

(***************************************************************************)
(* Matrix3D                                                                *)
(***************************************************************************)
ArrayLen == 3

Arr3(a, b, c) == [i \in 0..2 |-> CASE i = 0 -> a [] i = 1 -> b [] OTHER -> c]

MNew(n00, n01, n02, n10, n11, n12, n20, n21, n22) ==
    [n |-> Arr3(Arr3(n00, n10, n20), Arr3(n01, n11, n21), Arr3(n02, n12, n22))]

MNewOf(a) == MNew(a[1], a[2], a[3], a[4], a[5], a[6], a[7], a[8], a[9])

MFromVectors(v1, v2, v3) ==
    [n |-> Arr3(Arr3(VGet(v1, 0), VGet(v1, 1), VGet(v1, 2)),
                Arr3(VGet(v2, 0), VGet(v2, 1), VGet(v2, 2)),
                Arr3(VGet(v3, 0), VGet(v3, 1), VGet(v3, 2)))]

\* The bounds check of an index into a [T; 3].
InBounds(index) == index < ArrayLen

\* An unchecked pair access that wraps around.
ElemSlotWrapped(i, j) == [panic |-> FALSE, col |-> j % 3, row |-> i % 3]
\* self.n[j][i] for the pair (i, j): the slot, or a panic.
ElemSlot(i, j) == [panic |-> ~(InBounds(j) /\ InBounds(i)), col |-> j, row |-> i]

\* self.n[index]: the column, or a panic.
ColSlot(index) == [panic |-> ~InBounds(index), col |-> index]

MGet(mat, i, j) == mat.n[ElemSlot(i, j).col][ElemSlot(i, j).row]
MSet(mat, i, j, x) == [mat EXCEPT !.n[ElemSlot(i, j).col][ElemSlot(i, j).row] = x]

\* mem::transmute between &[f32; 3] and &Vector3D.  Vector3D has the default
\* representation, which fixes no order of the fields: the build places field
\* f at slot layout[f].
Fields == {"x", "y", "z"}
Layouts == {l \in [Fields -> 0..2] : \A f, g \in Fields : f # g => l[f] # l[g]}
Declared == [x |-> 0, y |-> 1, z |-> 2]
FieldAt(slot) == CHOOSE f \in Fields : layout[f] = slot

ColAsVector(arr) == [x |-> arr[layout.x], y |-> arr[layout.y], z |-> arr[layout.z]]
VectorAsCol(vec) == [slot \in 0..2 |-> vec[FieldAt(slot)]]

\* m[index] read, m[index] = vec, m[index][k] read and m[index][k] = x.
MCol(mat, index) == ColAsVector(mat.n[ColSlot(index).col])
MSetCol(mat, index, vec) == [mat EXCEPT !.n[ColSlot(index).col] = VectorAsCol(vec)]
MViewGet(mat, index, k) == VGet(MCol(mat, index), k)
MViewSet(mat, index, k, x) == MSetCol(mat, index, VSet(MCol(mat, index), k, x))

\* #[derive(PartialEq)] on n: the nine slots compared with f32's ==.
MEq(a, b) == \A c \in 0..2, r \in 0..2 : FEq(a.n[c][r], b.n[c][r])

\* The sum of products with the last factor taken from the second term.
DotSlip(a0, b0, a1, b1, a2, b2) == FAdd(FAdd(FMul(a0, b0), FMul(a1, b1)), FMul(a2, b1))
\* a0 * b0 + a1 * b1 + a2 * b2, summed left to right.
Dot3(a0, b0, a1, b1, a2, b2) == FAdd(FAdd(FMul(a0, b0), FMul(a1, b1)), FMul(a2, b2))

\* mul with the operands taken in the other order.
MMulSwapped(a, b) ==
    MNew(
        Dot3(b.n[0][0], a.n[0][0], b.n[1][0], a.n[0][1], b.n[2][0], a.n[0][2]),
        Dot3(b.n[0][0], a.n[1][0], b.n[1][0], a.n[1][1], b.n[2][0], a.n[1][2]),
        Dot3(b.n[0][0], a.n[2][0], b.n[1][0], a.n[2][1], b.n[2][0], a.n[2][2]),
        Dot3(b.n[0][1], a.n[0][0], b.n[1][1], a.n[0][1], b.n[2][1], a.n[0][2]),
        Dot3(b.n[0][1], a.n[1][0], b.n[1][1], a.n[1][1], b.n[2][1], a.n[1][2]),
        Dot3(b.n[0][1], a.n[2][0], b.n[1][1], a.n[2][1], b.n[2][1], a.n[2][2]),
        Dot3(b.n[0][2], a.n[0][0], b.n[1][2], a.n[0][1], b.n[2][2], a.n[0][2]),
        Dot3(b.n[0][2], a.n[1][0], b.n[1][2], a.n[1][1], b.n[2][2], a.n[1][2]),
        Dot3(b.n[0][2], a.n[2][0], b.n[1][2], a.n[2][1], b.n[2][2], a.n[2][2]))
\* self * rhs
MMul(a, b) ==
    MNew(
        Dot3(a.n[0][0], b.n[0][0], a.n[1][0], b.n[0][1], a.n[2][0], b.n[0][2]),
        Dot3(a.n[0][0], b.n[1][0], a.n[1][0], b.n[1][1], a.n[2][0], b.n[1][2]),
        Dot3(a.n[0][0], b.n[2][0], a.n[1][0], b.n[2][1], a.n[2][0], b.n[2][2]),
        Dot3(a.n[0][1], b.n[0][0], a.n[1][1], b.n[0][1], a.n[2][1], b.n[0][2]),
        Dot3(a.n[0][1], b.n[1][0], a.n[1][1], b.n[1][1], a.n[2][1], b.n[1][2]),
        Dot3(a.n[0][1], b.n[2][0], a.n[1][1], b.n[2][1], a.n[2][1], b.n[2][2]),
        Dot3(a.n[0][2], b.n[0][0], a.n[1][2], b.n[0][1], a.n[2][2], b.n[0][2]),
        Dot3(a.n[0][2], b.n[1][0], a.n[1][2], b.n[1][1], a.n[2][2], b.n[1][2]),
        Dot3(a.n[0][2], b.n[2][0], a.n[1][2], b.n[2][1], a.n[2][2], b.n[2][2]))

\* The matrices of the tests, as the nine arguments of new, and a family of
\* ramps b, b+s, ..., b+8s.
ArgsOf(t) == [i \in 1..9 |-> Fin(t[i])]
A123 == ArgsOf(<<1, 2, 3, 4, 5, 6, 7, 8, 9>>)
A1 == ArgsOf(<<1, 3, -2, 0, -1, 4, 4, -3, 2>>)
A2 == ArgsOf(<<2, -2, 3, 1, 5, 3, -3, 4, 1>>)
A12 == ArgsOf(<<11, 5, 10, -13, 11, 1, -1, -15, 5>>)
Ramp(b, s) == [i \in 1..9 |-> Fin(b + s * (i - 1))]
MatArgs == {A123, A1, A2} \cup {Ramp(b, s) : b \in (-MaxInt)..MaxInt, s \in 0..MaxInt}
V789 == VNew(Fin(7), Fin(8), Fin(9))
VTen == VNew(Fin(10), Fin(11), Fin(12))
ColVecs == {V123, V456, V789, VNew(Fin(-MaxInt), Fin(0), Fin(MaxInt))}
MatWriteVals == {Fin(10)}
MatWriteVecs == {VTen}

(***************************************************************************)
(* The vector program: a vector is constructed, then operators are applied *)
(* to it.  acc starts as a copy of v and receives every by-value result.   *)
(***************************************************************************)
MatIdle == UNCHANGED <<layout, m, lhs, rhs, args, cols, writes>>

VecInit ==
    /\ layout = Declared
    /\ m = MNewOf(A123)
    /\ lhs = MNewOf(A123)
    /\ rhs = MNewOf(A123)
    /\ args = A123
    /\ cols = <<V123, V456, V789>>
    /\ v \in Vecs
    /\ w = V456
    /\ acc = v
    /\ res = Fin(0)
    /\ op = NoOp
    /\ hist = <<>>
    /\ panicked = FALSE
    /\ writes = 0

\* -acc: neg consumes its operand and returns the negated vector.
Neg ==
    /\ ~panicked
    /\ Len(hist) < MaxOps
    /\ acc' = VNeg(acc)
    /\ op' = Op("neg", 0, 0, Fin(0))
    /\ hist' = Append(hist, "neg")
    /\ UNCHANGED <<v, w, res, panicked>>
    /\ MatIdle

\* &v * s
Mul(s) ==
    /\ ~panicked
    /\ hist = <<>>
    /\ acc' = VMul(v, s)
    /\ op' = Op("mul", 0, 0, s)
    /\ hist' = Append(hist, "mul")
    /\ UNCHANGED <<v, w, res, panicked>>
    /\ MatIdle

\* v *= s
MulAssign(s) ==
    /\ ~panicked
    /\ hist = <<>>
    /\ v' = VMulAssign(v, s)
    /\ op' = Op("mul_assign", 0, 0, s)
    /\ hist' = Append(hist, "mul_assign")
    /\ UNCHANGED <<w, acc, res, panicked>>
    /\ MatIdle

\* &v / s
Div(s) ==
    /\ ~panicked
    /\ hist = <<>>
    /\ acc' = VDiv(v, s)
    /\ op' = Op("div", 0, 0, s)
    /\ hist' = Append(hist, "div")
    /\ UNCHANGED <<v, w, res, panicked>>
    /\ MatIdle

\* v /= s
DivAssign(s) ==
    /\ ~panicked
    /\ hist = <<>>
    /\ v' = VDivAssign(v, s)
    /\ op' = Op("div_assign", 0, 0, s)
    /\ hist' = Append(hist, "div_assign")
    /\ UNCHANGED <<w, acc, res, panicked>>
    /\ MatIdle

\* v[index]
Index(index) ==
    /\ ~panicked
    /\ Len(hist) < MaxOps
    /\ op' = Op("index", index, 0, Fin(0))
    /\ hist' = Append(hist, "index")
    /\ IF Field(index) = "panic"
       THEN panicked' = TRUE /\ UNCHANGED res
       ELSE res' = VGet(v, index) /\ UNCHANGED panicked
    /\ UNCHANGED <<v, w, acc>>
    /\ MatIdle

\* v[index] = x
IndexMut(index, x) ==
    /\ ~panicked
    /\ hist = <<>>
    /\ op' = Op("index_mut", index, 0, x)
    /\ hist' = Append(hist, "index_mut")
    /\ IF Field(index) = "panic"
       THEN panicked' = TRUE /\ UNCHANGED v
       ELSE v' = VSet(v, index, x) /\ UNCHANGED panicked
    /\ UNCHANGED <<w, acc, res>>
    /\ MatIdle

VecNext ==
    \/ Neg
    \/ \E s \in MulScalars : Mul(s)
    \/ \E s \in MulScalars : MulAssign(s)
    \/ \E s \in DivScalars : Div(s)
    \/ \E s \in DivScalars : DivAssign(s)
    \/ \E index \in Indices : Index(index)
    \/ \E index \in Indices, x \in WriteVals : IndexMut(index, x)

VecSpec == VecInit /\ [][VecNext]_vars

(***************************************************************************)
(* The sum program: two vectors of small integers are constructed, then    *)
(* &v + &w is taken once and w is subtracted from the running result.      *)
(***************************************************************************)
SumInit ==
    /\ layout = Declared
    /\ m = MNewOf(A123)
    /\ lhs = MNewOf(A123)
    /\ rhs = MNewOf(A123)
    /\ args = A123
    /\ cols = <<V123, V456, V789>>
    /\ v \in IntVecs \cup {V123}
    /\ w \in IntVecs \cup {V456}
    /\ acc = v
    /\ res = Fin(0)
    /\ op = NoOp
    /\ hist = <<>>
    /\ panicked = FALSE
    /\ writes = 0

\* &v + &w
Add ==
    /\ hist = <<>>
    /\ acc' = VAdd(v, w)
    /\ op' = Op("add", 0, 0, Fin(0))
    /\ hist' = Append(hist, "add")
    /\ UNCHANGED <<v, w, res, panicked>>
    /\ MatIdle

\* acc - w
Sub ==
    /\ Len(hist) < MaxOps
    /\ acc' = VSub(acc, w)
    /\ op' = Op("sub", 0, 0, Fin(0))
    /\ hist' = Append(hist, "sub")
    /\ UNCHANGED <<v, w, res, panicked>>
    /\ MatIdle

SumNext == Add \/ Sub

SumSpec == SumInit /\ [][SumNext]_vars

(***************************************************************************)
(* The matrix program: the build fixes a layout of Vector3D, a matrix is   *)
(* constructed by new, constructed again by new or from_vectors, and       *)
(* multiplied by another matrix.                                           *)
(***************************************************************************)
VecIdle == UNCHANGED <<v, w, acc, res, panicked, writes>>

MatInit ==
    /\ layout \in Layouts
    /\ args \in MatArgs
    /\ m = MNewOf(args)
    /\ lhs = MNewOf(A123)
    /\ rhs = MNewOf(A123)
    /\ cols = <<V123, V456, V789>>
    /\ v = V123
    /\ w = V456
    /\ acc = V123
    /\ res = Fin(0)
    /\ op = NoOp
    /\ hist = <<>>
    /\ panicked = FALSE
    /\ writes = 0

\* m = Matrix3D::new(a[1], ..., a[9])
New(a) ==
    /\ hist = <<>>
    /\ m' = MNewOf(a)
    /\ args' = a
    /\ op' = Op("new", 0, 0, Fin(0))
    /\ hist' = Append(hist, "new")
    /\ UNCHANGED <<layout, lhs, rhs, cols>>
    /\ VecIdle

\* m = Matrix3D::from_vectors(&c1, &c2, &c3)
FromVectors(c1, c2, c3) ==
    /\ hist = <<>>
    /\ m' = MFromVectors(c1, c2, c3)
    /\ cols' = <<c1, c2, c3>>
    /\ op' = Op("from_vectors", 0, 0, Fin(0))
    /\ hist' = Append(hist, "from_vectors")
    /\ UNCHANGED <<layout, lhs, rhs, args>>
    /\ VecIdle

\* m = m * Matrix3D::new(b[1], ..., b[9])
MatMul(b) ==
    /\ op.name # "mul"
    /\ lhs' = m
    /\ rhs' = MNewOf(b)
    /\ m' = MMul(lhs', rhs')
    /\ op' = Op("mul", 0, 0, Fin(0))
    /\ hist' = Append(hist, "mul")
    /\ UNCHANGED <<layout, args, cols>>
    /\ VecIdle

MatNext ==
    \/ \E a \in MatArgs : New(a)
    \/ \E c1 \in ColVecs, c2 \in ColVecs, c3 \in ColVecs : FromVectors(c1, c2, c3)
    \/ \E b \in MatArgs : MatMul(b)

MatSpec == MatInit /\ [][MatNext]_vars

(***************************************************************************)
(* The index program: the build fixes a layout of Vector3D, the matrix of  *)
(* the tests is constructed, and it is read and written through its two    *)
(* accessors: up to MaxWrites writes, then one read.  A column read is     *)
(* returned in acc, an element read in res.                                *)
(***************************************************************************)
IdxIdle == UNCHANGED <<layout, lhs, rhs, args, cols, v>>

IdxInit ==
    /\ layout \in Layouts
    /\ args = A123
    /\ m = MNewOf(args)
    /\ lhs = MNewOf(A123)
    /\ rhs = MNewOf(A123)
    /\ cols = <<V123, V456, V789>>
    /\ v = V123
    /\ w = V456
    /\ acc = V123
    /\ res = Fin(0)
    /\ op = NoOp
    /\ hist = <<>>
    /\ panicked = FALSE
    /\ writes = 0

\* m[(i, j)]
ElemRead(i, j) ==
    /\ ~panicked
    /\ hist = <<>>
    /\ hist' = <<"read">>
    /\ op' = Op("elem_read", i, j, Fin(0))
    /\ IF ElemSlot(i, j).panic
       THEN panicked' = TRUE /\ UNCHANGED res
       ELSE res' = MGet(m, i, j) /\ UNCHANGED panicked
    /\ UNCHANGED <<m, w, acc, writes>>
    /\ IdxIdle

\* m[(i, j)] = x
ElemWrite(i, j, x) ==
    /\ ~panicked
    /\ hist = <<>>
    /\ UNCHANGED hist
    /\ writes < MaxWrites
    /\ op' = Op("elem_write", i, j, x)
    /\ IF ElemSlot(i, j).panic
       THEN panicked' = TRUE /\ UNCHANGED <<m, writes>>
       ELSE m' = MSet(m, i, j, x) /\ writes' = writes + 1 /\ UNCHANGED panicked
    /\ UNCHANGED <<w, acc, res>>
    /\ IdxIdle

\* m[index]
ColRead(index) ==
    /\ ~panicked
    /\ hist = <<>>
    /\ hist' = <<"read">>
    /\ op' = Op("col_read", index, 0, Fin(0))
    /\ IF ColSlot(index).panic
       THEN panicked' = TRUE /\ UNCHANGED acc
       ELSE acc' = MCol(m, index) /\ UNCHANGED panicked
    /\ UNCHANGED <<m, w, res, writes>>
    /\ IdxIdle

\* m[index] = vec
ColWrite(index, vec) ==
    /\ ~panicked
    /\ hist = <<>>
    /\ UNCHANGED hist
    /\ writes < MaxWrites
    /\ op' = Op("col_write", index, 0, Fin(0))
    /\ w' = vec
    /\ IF ColSlot(index).panic
       THEN panicked' = TRUE /\ UNCHANGED <<m, writes>>
       ELSE m' = MSetCol(m, index, vec) /\ writes' = writes + 1 /\ UNCHANGED panicked
    /\ UNCHANGED <<acc, res>>
    /\ IdxIdle

\* m[index][k]: the column view, then Vector3D's index.
ViewRead(index, k) ==
    /\ ~panicked
    /\ hist = <<>>
    /\ hist' = <<"read">>
    /\ op' = Op("view_read", k, index, Fin(0))
    /\ IF ColSlot(index).panic \/ Field(k) = "panic"
       THEN panicked' = TRUE /\ UNCHANGED res
       ELSE res' = MViewGet(m, index, k) /\ UNCHANGED panicked
    /\ UNCHANGED <<m, w, acc, writes>>
    /\ IdxIdle

\* m[index][k] = x: the mutable column view, then Vector3D's index_mut.
ViewWrite(index, k, x) ==
    /\ ~panicked
    /\ hist = <<>>
    /\ UNCHANGED hist
    /\ writes < MaxWrites
    /\ op' = Op("view_write", k, index, x)
    /\ IF ColSlot(index).panic \/ Field(k) = "panic"
       THEN panicked' = TRUE /\ UNCHANGED <<m, writes>>
       ELSE m' = MViewSet(m, index, k, x) /\ writes' = writes + 1 /\ UNCHANGED panicked
    /\ UNCHANGED <<w, acc, res>>
    /\ IdxIdle

IdxNext ==
    \/ \E i \in Indices, j \in Indices : ElemRead(i, j)
    \/ \E i \in Indices, j \in Indices, x \in MatWriteVals : ElemWrite(i, j, x)
    \/ \E index \in Indices : ColRead(index)
    \/ \E index \in Indices, vec \in MatWriteVecs : ColWrite(index, vec)
    \/ \E index \in Indices, k \in Indices : ViewRead(index, k)
    \/ \E index \in Indices, k \in Indices, x \in MatWriteVals : ViewWrite(index, k, x)

IdxSpec == IdxInit /\ [][IdxNext]_vars

(***************************************************************************)
(* Properties                                                              *)
(***************************************************************************)
ArgAt(row, col) == args[3 * row + col + 1]
Same(a, b) == IF IsNaN(b) THEN IsNaN(a) ELSE a = b
ByZero(c) == IF IsNaN(c) \/ IsZero(c) THEN NaN ELSE IF c.neg THEN NegInf ELSE Inf
NoNaN(a) == ~IsNaN(a.x) /\ ~IsNaN(a.y) /\ ~IsNaN(a.z)

\* C1: after new(n00..n22), storage slot n[col][row] holds n<row><col>,
\* m[(row,col)] reads n<row><col> and m[col] reads (n0<col>, n1<col>, n2<col>);
\* after from_vectors(c1,c2,c3), m[i] is the (i+1)-th argument and m[(row,col)]
\* is component row of the (col+1)-th argument.
C1_Layout ==
    /\ op.name = "new" =>
           \A row \in 0..2, col \in 0..2 :
               /\ m.n[col][row] = ArgAt(row, col)
               /\ MGet(m, row, col) = ArgAt(row, col)
               /\ MCol(m, col) = VNew(ArgAt(0, col), ArgAt(1, col), ArgAt(2, col))
    /\ op.name = "from_vectors" =>
           \A row \in 0..2, col \in 0..2 :
               /\ MCol(m, col) = cols[col + 1]
               /\ MGet(m, row, col) = VGet(cols[col + 1], row)

\* C1 restricted to the builds that place x, y, z in the declared order.
C1_DeclaredLayout == layout = Declared => C1_Layout

\* C2: (a * b)[(row,col)] = a[(row,0)]*b[(0,col)] + a[(row,1)]*b[(1,col)] +
\* a[(row,2)]*b[(2,col)] with a the left operand, and the product of the two
\* matrices of test_mul is new(11,5,10, -13,11,1, -1,-15,5).
C2_Product ==
    op.name = "mul" =>
        /\ \A row \in 0..2, col \in 0..2 :
               MGet(m, row, col) =
                   FAdd(FAdd(FMul(MGet(lhs, row, 0), MGet(rhs, 0, col)),
                             FMul(MGet(lhs, row, 1), MGet(rhs, 1, col))),
                        FMul(MGet(lhs, row, 2), MGet(rhs, 2, col)))
        /\ (lhs = MNewOf(A1) /\ rhs = MNewOf(A2)) => m = MNewOf(A12)

\* C2, reached: the product of the two matrices of test_mul has been taken.
C2_Witness ==
    /\ op.name = "mul"
    /\ lhs = MNewOf(A1)
    /\ rhs = MNewOf(A2)
    /\ MGet(m, 1, 0) = Fin(-13)

\* C3: after in-range writes through m[(row,col)], m[col] and m[col][row],
\* m[(row,col)] == m[col][row] for all row, col, and the entry written last
\* reads back through both accessors.
C3_Aliasing ==
    (~panicked /\ writes >= 1) =>
        /\ \A row \in 0..2, col \in 0..2 : MGet(m, row, col) = MViewGet(m, col, row)
        /\ op.name \in {"elem_write", "view_write"} =>
               /\ MGet(m, op.i, op.j) = op.x
               /\ MViewGet(m, op.j, op.i) = op.x
        /\ op.name = "col_write" =>
               /\ MCol(m, op.i) = w
               /\ \A row \in 0..2 : MGet(m, row, op.i) = VGet(w, row)

\* C3 restricted to the builds that place x, y, z in the declared order.
C3_DeclaredLayout == layout = Declared => C3_Aliasing

C4_IndexState ==
    /\ (op.name = "index" /\ op.i = 0) => ~panicked /\ res = v.x
    /\ (op.name = "index" /\ op.i = 1) => ~panicked /\ res = v.y
    /\ (op.name = "index" /\ op.i = 2) => ~panicked /\ res = v.z
    /\ (op.name = "index_mut" /\ op.i = 0) =>
           ~panicked /\ v = [x |-> op.x, y |-> acc.y, z |-> acc.z]
    /\ (op.name = "index_mut" /\ op.i = 1) =>
           ~panicked /\ v = [x |-> acc.x, y |-> op.x, z |-> acc.z]
    /\ (op.name = "index_mut" /\ op.i = 2) =>
           ~panicked /\ v = [x |-> acc.x, y |-> acc.y, z |-> op.x]
    /\ (op.name \in {"index", "index_mut"} /\ op.i >= 3) => panicked

C4_PanicFrame == (panicked' /\ ~panicked) => (v' = v /\ res' = res /\ acc' = acc)

\* C4: v[0], v[1], v[2] read x, y, z; v[i] = a sets exactly that component
\* (acc holds the vector as it was before the write); an index >= 3 panics on
\* read and on write, returns nothing and leaves the vector as it was.
C4_Index == []C4_IndexState /\ [][C4_PanicFrame]_vars

\* C4, reached: v[3] = a has panicked on the vector (1,2,3).
C4_Witness ==
    /\ panicked
    /\ op.name = "index_mut"
    /\ op.i = 3
    /\ v = V123

C5_PanicState ==
    /\ (op.name \in {"elem_read", "elem_write"} /\ (op.i > 2 \/ op.j > 2)) => panicked
    /\ (op.name \in {"col_read", "col_write"} /\ op.i > 2) => panicked
    /\ (op.name \in {"view_read", "view_write"} /\ op.j > 2) => panicked

C5_PanicFrame == (panicked' /\ ~panicked) => (m' = m /\ res' = res /\ acc' = acc)

\* C5: m[(row,col)] with row > 2 or col > 2 and m[i] with i > 2, read or
\* write, panic, return nothing and leave the matrix as it was.
C5_OutOfRange == []C5_PanicState /\ [][C5_PanicFrame]_vars

\* C5, reached: m[(3,0)] = x has panicked after one write.
C5_Witness ==
    /\ panicked
    /\ op.name = "elem_write"
    /\ op.i = 3
    /\ op.j = 0
    /\ writes = 1

\* C6: v / 0.0 and v /= 0.0 do not panic; a positive component becomes
\* +Infinity, a negative one -Infinity, a zero or a NaN becomes NaN; and
\* (1,2,3) / 0.0 == (Inf, Inf, Inf).  After v /= s, acc holds the vector as
\* it was before.
C6_DivByZero ==
    /\ (hist = <<"div">> /\ op.x = Fin(0)) =>
           /\ ~panicked
           /\ \A f \in Fields : Same(acc[f], ByZero(v[f]))
           /\ v = V123 => VEq(acc, VNew(Inf, Inf, Inf))
    /\ (hist = <<"div_assign">> /\ op.x = Fin(0)) =>
           /\ ~panicked
           /\ \A f \in Fields : Same(v[f], ByZero(acc[f]))
           /\ acc = V123 => VEq(v, VNew(Inf, Inf, Inf))

\* C6, reached: (1, -1, -0.0) / 0.0 has returned (Inf, -Inf, NaN).
C6_Witness ==
    /\ hist = <<"div">>
    /\ op.x = Fin(0)
    /\ v = VNew(Fin(1), Fin(-1), NegZero)
    /\ acc = VNew(Inf, NegInf, NaN)

C7_RoundTripState == hist = <<"add", "sub">> => VEq(acc, v)

C7_AddFrame == (op'.name = "add" /\ hist' # hist) => (v' = v /\ w' = w)

\* C7: for vectors a, b of small integers, sub(add(a, b), b) == a, and add
\* leaves a and b as they were.
C7_RoundTrip == []C7_RoundTripState /\ [][C7_AddFrame]_vars

\* C7, reached: ((1,2,3) + (4,5,6)) - (4,5,6) has been computed.
C7_Witness ==
    /\ hist = <<"add", "sub">>
    /\ v = V123
    /\ w = V456
    /\ acc = V123

\* C8 as stated: neg(neg(v)) == v for every v, NaN and Infinity included.
C8_Original == hist = <<"neg", "neg">> => VEq(acc, v)

\* C8 as amended: neg(neg(v)) == v for every v with no NaN component.
C8_Involution == (hist = <<"neg", "neg">> /\ NoNaN(v)) => VEq(acc, v)

\* C8, reached: (Inf, -0.0, -1) has been negated twice.
C8_Witness ==
    /\ hist = <<"neg", "neg">>
    /\ v = VNew(Inf, NegZero, Fin(-1))
    /\ VEq(acc, v)

\* C9: the product of the two matrices of test_mul is
\* new(11,5,10, -13,11,1, -1,-15,5), and their product in the other order
\* differs from it in at least one entry.
C9_NotCommutative ==
    op.name = "mul" =>
        /\ (lhs = MNewOf(A1) /\ rhs = MNewOf(A2)) => MEq(m, MNewOf(A12))
        /\ (lhs = MNewOf(A2) /\ rhs = MNewOf(A1)) => ~MEq(m, MNewOf(A12))

\* C9, reached: the two matrices of test_mul have been multiplied in the
\* other order.
C9_Witness ==
    /\ op.name = "mul"
    /\ lhs = MNewOf(A2)
    /\ rhs = MNewOf(A1)
    /\ \E row \in 0..2, col \in 0..2 : MGet(m, row, col) # MGet(MNewOf(A12), row, col)

C10_Step ==
    /\ (writes' = writes + 1 /\ op'.name = "elem_write") =>
           \A c \in 0..2, r \in 0..2 :
               m'.n[c][r] = IF c = op'.j /\ r = op'.i THEN op'.x ELSE m.n[c][r]
    /\ (writes' = writes + 1 /\ op'.name = "col_write") =>
           \A c \in 0..2, r \in 0..2 :
               m'.n[c][r] = IF c = op'.i THEN VGet(w', r) ELSE m.n[c][r]

C10_DeclaredStep == layout = Declared => C10_Step

\* C10: an in-range m[(row,col)] = x sets slot n[col][row] and leaves the
\* other eight entries; an in-range m[col] = v sets rows 0, 1, 2 of column col
\* to v.x, v.y, v.z and leaves the other two columns.
C10_WriteFrame == [][C10_Step]_vars

\* C10 restricted to the builds that place x, y, z in the declared order.
C10_DeclaredLayout == [][C10_DeclaredStep]_vars
====
